---- MODULE Spec2Model ----
(***************************************************************************)
(* Model of github_assistant: the rate-limit retry wrapper of the          *)
(* hosting-API client (GitHubClient._handle_rate_limit) and the adapter    *)
(* operations of GitHubClient that the command surface calls.              *)
(*                                                                         *)
(* Text is a sequence of one-character strings, so that str(e).lower()     *)
(* and the substring test of the source are computed, not assumed.         *)
(***************************************************************************)
EXTENDS Integers, Sequences, FiniteSets, TLC

(***************************************************************************)
(* Program constants of _handle_rate_limit.                                *)
(***************************************************************************)
max_retries == 3

retry_delay == 60

ResetBuffer == 5

(***************************************************************************)
(* Bounds of the model: how far ahead of / behind the clock the reset time *)
(* reported by the remote rate-limit window may lie, and how many distinct *)
(* results the wrapped operation may return.                               *)
(***************************************************************************)
MaxResetAhead == 100

MaxResetBehind == 10

NumValues == 2

(***************************************************************************)
(* Text.                                                                   *)
(***************************************************************************)
UpperChars ==
  << "A", "B", "C", "D", "E", "F", "G", "H", "I", "J", "K", "L", "M",
     "N", "O", "P", "Q", "R", "S", "T", "U", "V", "W", "X", "Y", "Z" >>

LowerChars ==
  << "a", "b", "c", "d", "e", "f", "g", "h", "i", "j", "k", "l", "m",
     "n", "o", "p", "q", "r", "s", "t", "u", "v", "w", "x", "y", "z" >>

\* str.lower() on one character
LowerChar(c) ==
  IF \E i \in 1..Len(UpperChars) : UpperChars[i] = c
  THEN LowerChars[CHOOSE i \in 1..Len(UpperChars) : UpperChars[i] = c]
  ELSE c

\* variant: text compared as written, case kept
LowerIdentity(s) == s

\* str.lower()
Lower(s) == [i \in 1..Len(s) |-> LowerChar(s[i])]

\* Python's  needle in hay
Contains(hay, needle) ==
  \E i \in 0..(Len(hay) - Len(needle)) :
    \A j \in 1..Len(needle) : hay[i + j] = needle[j]

\* the literal 'rate limit' of the source
RateLimitText == << "r", "a", "t", "e", " ", "l", "i", "m", "i", "t" >>

MsgApiRateLimit ==
  << "A", "P", "I", " ", "r", "a", "t", "e", " ", "l", "i", "m", "i", "t", " ",
     "e", "x", "c", "e", "e", "d", "e", "d", " ", "f", "o", "r", " ",
     "u", "s", "e", "r" >>

MsgRateLimitCaps ==
  << "A", "P", "I", " ", "R", "a", "t", "e", " ", "L", "i", "m", "i", "t", " ",
     "E", "x", "c", "e", "e", "d", "e", "d" >>

MsgForbiddenScope ==
  << "F", "o", "r", "b", "i", "d", "d", "e", "n", ":", " ",
     "i", "n", "s", "u", "f", "f", "i", "c", "i", "e", "n", "t", " ",
     "s", "c", "o", "p", "e" >>

MsgNotFound == << "N", "o", "t", " ", "F", "o", "u", "n", "d" >>

Messages == { MsgApiRateLimit, MsgRateLimitCaps, MsgForbiddenScope, MsgNotFound }

Statuses == { 403, 404 }

DigitChars == << "0", "1", "2", "3", "4", "5", "6", "7", "8", "9" >>

\* decimal text of a natural number
RECURSIVE IntText(_)
IntText(n) ==
  IF n < 10 THEN << DigitChars[n + 1] >>
  ELSE IntText(n \div 10) \o << DigitChars[(n % 10) + 1] >>

(***************************************************************************)
(* Outcomes of one call of the wrapped operation.  cls is the class of     *)
(* what the call raised: RateLimitExceededException is a subclass of       *)
(* GithubException; OtherError stands for any exception outside that       *)
(* hierarchy; "ok" is a normal return of value.                            *)
(***************************************************************************)
NoText == << >>

Values == 1..NumValues

OkOutcomes ==
  { [cls |-> "ok", status |-> 0, msg |-> NoText, value |-> v] : v \in Values }

ExplicitOutcomes ==
  { [cls |-> "RateLimitExceededException", status |-> 403,
     msg |-> MsgApiRateLimit, value |-> 0] }

GenericOutcomes ==
  { [cls |-> "GithubException", status |-> s, msg |-> m, value |-> 0] :
      s \in Statuses, m \in Messages }

OtherOutcomes ==
  { [cls |-> "OtherError", status |-> 0, msg |-> NoText, value |-> 0] }

Outcomes == OkOutcomes \cup ExplicitOutcomes \cup GenericOutcomes \cup OtherOutcomes

NoOutcome == [cls |-> "none", status |-> 0, msg |-> NoText, value |-> 0]

\* str(e) of a GithubException: the status followed by the payload's message
StrOfException(e) == IntText(e.status) \o << " " >> \o e.msg

\* variant: the clause for GithubException placed first, so that the
\* clause for its subclass is never reached
IsRateLimitExceededShadowed(e) == FALSE

\* except RateLimitExceededException:
IsRateLimitExceeded(e) == e.cls = "RateLimitExceededException"

\* except GithubException as e:  (reached only when the first clause did not match)
IsGithubException(e) == e.cls \in { "GithubException", "RateLimitExceededException" }

\* variant: every 403 counts, whatever its message
NoSubstringTest(e) == e.status = 403

\* e.status == 403 and 'rate limit' in str(e).lower()
IsRateLimit403(e) ==
  e.status = 403 /\ Contains(Lower(StrOfException(e)), RateLimitText)

\* variant: the bound of the loop taken for the bound of the retries
AttemptsLeftOffByOne(attempt) == attempt < max_retries

\* attempt < max_retries - 1
AttemptsLeft(attempt) == attempt < max_retries - 1

\* wait_time = (reset_time - time.time()) + 5
WaitTime(reset_time, t) == (reset_time - t) + ResetBuffer

Min(a, b) == IF a <= b THEN a ELSE b

\* variant: the computed wait slept in full
SleepArgUncapped(wait_time) == wait_time

\* min(wait_time, retry_delay), the argument of time.sleep
SleepArg(wait_time) == Min(wait_time, retry_delay)

(***************************************************************************)
(* State of one invocation of GitHubClient._handle_rate_limit.             *)
(*   pc       Attempting: about to call func (line 46);                    *)
(*            Waiting: inside a retry branch, before its wait (49-56,      *)
(*            63-64); Done: the invocation returned or raised              *)
(*   attempt  the loop variable of  for attempt in range(max_retries)      *)
(*   pending  which except clause opened the retry branch                  *)
(*   now      time.time(), in whole seconds                                *)
(*   trace    the calls the invocation made, in order: func, the           *)
(*            rate-limit query, logger.warning, logger.error, time.sleep   *)
(*            (ev "sleep" when it returned, "sleep_error" when it raised)  *)
(*   result   how the invocation ended                                     *)
(***************************************************************************)
VARIABLES pc, attempt, pending, now, trace, result

wrapperVars == << pc, attempt, pending, now, trace, result >>

(***************************************************************************)
(* State of one operation of GitHubClient called by the command surface.   *)
(*   adOp      the operation in progress, "none" before it starts          *)
(*   adStep    the position of the next API call in ApiCalls[adOp]         *)
(*   adTrace   the API calls the operation made, with their outcomes       *)
(*   adResult  how the operation ended                                     *)
(***************************************************************************)
VARIABLES adOp, adStep, adTrace, adResult

adapterVars == << adOp, adStep, adTrace, adResult >>

(***************************************************************************)
(* State of one run of the command-line program (cli.py).                  *)
(*   cliCmd    the command invoked, "none" before the run                  *)
(*   cliOpts   its flags and arguments, as given or not given              *)
(*   cliPc     the step the command is about to make; "idle" before the    *)
(*             run, "exited" after it                                      *)
(*   cliSteps  the steps made so far, each with its outcome                *)
(*   cliMsg    whether the text in hand (commit message, PR body, review   *)
(*             comment) is present and not empty                           *)
(*   cliExit   the exit status of the process, -1 while it runs            *)
(*   cliErr    whether the handler printed its error message               *)
(***************************************************************************)
VARIABLES cliCmd, cliOpts, cliPc, cliSteps, cliMsg, cliExit, cliErr

cliVars == << cliCmd, cliOpts, cliPc, cliSteps, cliMsg, cliExit, cliErr >>

(***************************************************************************)
(* State of the review methods of the agent (ai_agent.py).                 *)
(*   agFn      the method that ran, "none" before                          *)
(*   agText    the text of the generation response it received             *)
(*   agResult  what the method returned or raised                          *)
(***************************************************************************)
VARIABLES agFn, agText, agResult

agentVars == << agFn, agText, agResult >>

(***************************************************************************)
(* State of the configuration (config.py).                                 *)
(*   cfgShared  the section dicts that the class attribute DEFAULT_CONFIG  *)
(*              refers to                                                  *)
(*   cfgInst    the Config object built last: for each section what        *)
(*              self.config holds, a reference to the section dict of the  *)
(*              class, a dict of its own, or a value that is not a dict    *)
(*   cfgCount   how many Config objects were built                         *)
(*   cfgLast    the last operation, with the file and the environment that *)
(*              a construction saw                                         *)
(***************************************************************************)
VARIABLES cfgShared, cfgInst, cfgCount, cfgLast

configVars == << cfgShared, cfgInst, cfgCount, cfgLast >>

(***************************************************************************)
(* State of one GitClient (git_client.py).                                 *)
(*   gcClient  "none" before construction, then "made"                     *)
(*   gcRepo    whether self.repo is set                                    *)
(*   gcEngine  how many calls to the version-control engine the methods    *)
(*             of the client have made                                     *)
(*   gcLast    the last method called: whether self.repo was set when it   *)
(*             began, the engine calls it made, and how it ended           *)
(***************************************************************************)
VARIABLES gcClient, gcRepo, gcEngine, gcLast

gitVars == << gcClient, gcRepo, gcEngine, gcLast >>

(***************************************************************************)
(* State of one call of AIAgent._truncate_diff.                            *)
(*   tdDiff, tdMax  its arguments                                          *)
(*   tdResult       the pair it returned                                   *)
(***************************************************************************)
VARIABLES tdDiff, tdMax, tdResult

truncateVars == << tdDiff, tdMax, tdResult >>

vars ==
  << wrapperVars, adapterVars, cliVars, agentVars, configVars, gitVars, truncateVars >>

\* what a step of the wrapper leaves alone
WrapperFrame ==
  UNCHANGED << adapterVars, cliVars, agentVars, configVars, gitVars, truncateVars >>

\* what a step of an adapter operation leaves alone
AdapterFrame ==
  UNCHANGED << wrapperVars, cliVars, agentVars, configVars, gitVars, truncateVars >>

\* what a step of a command leaves alone
CliFrame ==
  UNCHANGED << wrapperVars, adapterVars, agentVars, configVars, gitVars, truncateVars >>

\* what a method of the agent leaves alone
AgentFrame ==
  UNCHANGED << wrapperVars, adapterVars, cliVars, configVars, gitVars, truncateVars >>

\* what an operation on the configuration leaves alone
ConfigFrame ==
  UNCHANGED << wrapperVars, adapterVars, cliVars, agentVars, gitVars, truncateVars >>

\* what a method of the GitClient leaves alone
GitFrame ==
  UNCHANGED << wrapperVars, adapterVars, cliVars, agentVars, configVars, truncateVars >>

\* what _truncate_diff leaves alone
TruncateFrame ==
  UNCHANGED << wrapperVars, adapterVars, cliVars, agentVars, configVars, gitVars >>

NoErr == [src |-> "none", cls |-> "none", n |-> 0]

NoResult == [kind |-> "none", value |-> 0, err |-> NoErr]

\* one entry of trace; at is the clock when the call was made
Event(ev, arg, out) == [ev |-> ev, arg |-> arg, out |-> out, at |-> now]

\* variant: func called without returning its value
ReturnedDropsValue(v) == [kind |-> "returned", value |-> 0, err |-> NoErr]

\* return func(*args, **kwargs)
Returned(v) == [kind |-> "returned", value |-> v, err |-> NoErr]

\* return of None, the value of a Python function whose body ends
ReturnedNone == [kind |-> "returned", value |-> 0, err |-> NoErr]

Raised(src, cls, n) ==
  [kind |-> "raised", value |-> 0, err |-> [src |-> src, cls |-> cls, n |-> n]]

\* variant: a new error raised in place of the one caught
RaiseWrapped(out, n) == Raised("wrapper", "Exception", n)

\* the bare  raise  of lines 59, 66 and 68, and an error no clause catches:
\* the error object of call n of func goes to the caller
Reraise(out, n) == Raised("operation", out.cls, n)

EventsOf(tr, ev) == SelectSeq(tr, LAMBDA e : e.ev = ev)

NumCalls == Len(EventsOf(trace, "call"))

NumSleeps == Len(EventsOf(trace, "sleep"))

NumQueries == Len(EventsOf(trace, "query"))

NumWarnings == Len(EventsOf(trace, "warning"))

(***************************************************************************)
(* What self.client.get_rate_limit().core.reset yields.  The client        *)
(* library is outside the repository: line 51 subtracts a float from the   *)
(* value (a number of seconds), line 77 calls .isoformat() on it (a        *)
(* datetime).  Both are environment choices, as is a failing query.        *)
(*   delta is  reset - now  at the time of the query.                      *)
(***************************************************************************)
ResetDeltas ==
  { 0 - MaxResetBehind, -6, -5, -4, 0, 2, 10, 54, 55, 56, MaxResetAhead }

\* what a failing query may raise: any error a request of the client library raises
QueryErrors == { "RateLimitExceededException", "GithubException", "OtherError" }

QueryOutcomes ==
  { [kind |-> "number", delta |-> d, cls |-> "none"] : d \in ResetDeltas }
    \cup { [kind |-> "datetime", delta |-> 2, cls |-> "none"] }
    \cup { [kind |-> "fails", delta |-> 0, cls |-> c] : c \in QueryErrors }

WrapperInit ==
  /\ pc = "Attempting"
  /\ attempt = 0
  /\ pending = "none"
  /\ now = 0
  /\ trace = << >>
  /\ result = NoResult

\* variant: the loop never comes back to the call of func
NextIterationStalls ==
  /\ attempt' = attempt + 1
  /\ pending' = "none"
  /\ pc' = "Waiting"
  /\ result' = result

\* the end of one pass of the for loop: the next attempt, or the end of the
\* function body when range(max_retries) is used up
NextIteration ==
  /\ attempt' = attempt + 1
  /\ pending' = "none"
  /\ IF attempt + 1 < max_retries
     THEN pc' = "Attempting" /\ result' = result
     ELSE pc' = "Done" /\ result' = ReturnedNone

Finish(r, tr) ==
  /\ pc' = "Done"
  /\ result' = r
  /\ trace' = tr
  /\ UNCHANGED << attempt, pending, now >>

\* lines 45-48, 57-62, 65-68: one call of func and the except clauses up to
\* the decision to retry
CallOperation(out) ==
  /\ pc = "Attempting"
  /\ WrapperFrame
  /\ LET n  == NumCalls + 1
         tr == Append(trace, Event("call", n, out))
     IN  IF out.cls = "ok"
         THEN Finish(Returned(out.value), tr)
         ELSE IF IsRateLimitExceeded(out)
         THEN IF AttemptsLeft(attempt)
              THEN /\ pc' = "Waiting"
                   /\ pending' = "explicit"
                   /\ trace' = tr
                   /\ UNCHANGED << attempt, now, result >>
              ELSE Finish(Reraise(out, n),
                          Append(tr, Event("error", 0, NoOutcome)))
         ELSE IF IsGithubException(out) /\ IsRateLimit403(out)
         THEN IF AttemptsLeft(attempt)
              THEN /\ pc' = "Waiting"
                   /\ pending' = "generic"
                   /\ trace' = tr
                   /\ UNCHANGED << attempt, now, result >>
              ELSE Finish(Reraise(out, n), tr)
         ELSE Finish(Reraise(out, n), tr)

\* the error a failing query raised, as the trace records it
QueryFailure(q) == [NoOutcome EXCEPT !.cls = q.cls]

\* variant: a failing query is swallowed and the fixed delay is slept
WaitExplicitQueryFailureIgnored(q) ==
  /\ pc = "Waiting"
  /\ WrapperFrame
  /\ pending = "explicit"
  /\ LET reset_time == now + q.delta
         wait_time  == WaitTime(reset_time, now)
         queried    == Append(trace, Event("query", reset_time, NoOutcome))
         warned     == Append(queried, Event("warning", wait_time, NoOutcome))
     IN  IF q.kind = "fails"
         THEN /\ trace' = trace \o << Event("query", 0, QueryFailure(q)),
                                     Event("sleep", retry_delay, NoOutcome) >>
              /\ now' = now + retry_delay
              /\ NextIteration
         ELSE IF q.kind = "datetime"
         THEN Finish(Raised("subtract", "TypeError", 0), queried)
         ELSE IF SleepArg(wait_time) < 0
         THEN Finish(Raised("sleep", "ValueError", 0),
                     Append(warned, Event("sleep_error", SleepArg(wait_time), NoOutcome)))
         ELSE /\ trace' = Append(warned, Event("sleep", SleepArg(wait_time), NoOutcome))
              /\ now' = now + SleepArg(wait_time)
              /\ NextIteration

\* lines 49-56: the retry branch of  except RateLimitExceededException
WaitExplicit(q) ==
  /\ pc = "Waiting"
  /\ WrapperFrame
  /\ pending = "explicit"
  /\ LET reset_time == now + q.delta
         wait_time  == WaitTime(reset_time, now)
         queried    == Append(trace, Event("query", reset_time, NoOutcome))
         warned     == Append(queried, Event("warning", wait_time, NoOutcome))
     IN  IF q.kind = "fails"
         THEN \* get_rate_limit() raised: no clause of this try covers it
              Finish(Raised("query", q.cls, 0),
                     Append(trace, Event("query", 0, QueryFailure(q))))
         ELSE IF q.kind = "datetime"
         THEN \* datetime - float
              Finish(Raised("subtract", "TypeError", 0), queried)
         ELSE IF SleepArg(wait_time) < 0
         THEN \* time.sleep of a negative length
              Finish(Raised("sleep", "ValueError", 0),
                     Append(warned, Event("sleep_error", SleepArg(wait_time), NoOutcome)))
         ELSE /\ trace' = Append(warned, Event("sleep", SleepArg(wait_time), NoOutcome))
              /\ now' = now + SleepArg(wait_time)
              /\ NextIteration

\* variant: only the safety buffer slept
GenericSleepBufferOnly == ResetBuffer

\* the argument of time.sleep(retry_delay), line 64
GenericSleep == retry_delay

\* variant: the sleep of line 64 without the warning of line 63
WaitGenericSilent ==
  /\ pc = "Waiting"
  /\ WrapperFrame
  /\ pending = "generic"
  /\ trace' = Append(trace, Event("sleep", GenericSleep, NoOutcome))
  /\ now' = now + GenericSleep
  /\ NextIteration

\* lines 63-64: the retry branch of  except GithubException
WaitGeneric ==
  /\ pc = "Waiting"
  /\ WrapperFrame
  /\ pending = "generic"
  /\ trace' = trace \o << Event("warning", retry_delay, NoOutcome),
                          Event("sleep", GenericSleep, NoOutcome) >>
  /\ now' = now + GenericSleep
  /\ NextIteration

WrapperNext ==
  \/ \E out \in Outcomes : CallOperation(out)
  \/ \E q \in QueryOutcomes : WaitExplicit(q)
  \/ WaitGeneric

(***************************************************************************)
(* The operations of GitHubClient that the command surface calls.  Each    *)
(* makes its API calls in order; get_repository (lines 111-119) is the     *)
(* first call of every operation on a repository.                          *)
(***************************************************************************)
ApiCalls ==
  [ create_repository   |-> << "create_repo" >>,
    list_repositories   |-> << "get_repos" >>,
    create_pull_request |-> << "get_repo", "create_pull" >>,
    list_pull_requests  |-> << "get_repo", "get_pulls" >>,
    get_pull_request    |-> << "get_repo", "get_pull" >>,
    get_pr_diff         |-> << "get_repo", "get_pull", "get_files" >>,
    comment_on_pr       |-> << "get_repo", "get_pull", "create_issue_comment" >>,
    create_issue        |-> << "get_repo", "create_issue" >>,
    list_issues         |-> << "get_repo", "get_issues" >>,
    close_issue         |-> << "get_repo", "get_issue", "edit" >>,
    comment_on_issue    |-> << "get_repo", "get_issue", "create_comment" >>,
    create_branch       |-> << "get_repo", "get_branch", "create_git_ref" >>,
    delete_branch       |-> << "get_repo", "get_git_ref", "delete" >>,
    list_branches       |-> << "get_repo", "get_branches" >> ]

AdapterOps == DOMAIN ApiCalls

\* the operations whose body is  try: ... except GithubException as e: raise Exception(...)
WrapsGithubException ==
  { "create_repository", "create_pull_request", "create_issue",
    "create_branch", "delete_branch" }

\* the operations that return nothing
ReturnsNone ==
  { "comment_on_pr", "close_issue", "comment_on_issue", "create_branch", "delete_branch" }

AdapterInit ==
  /\ adOp = "none"
  /\ adStep = 1
  /\ adTrace = << >>
  /\ adResult = NoResult

\* the command surface calls one operation of the client
AdapterBegin(op) ==
  /\ adOp = "none"
  /\ AdapterFrame
  /\ adOp' = op
  /\ UNCHANGED << adStep, adTrace, adResult >>

\* the class of the error the operation raises when API call api raised out
AdapterError(op, api, out) ==
  IF IsGithubException(out) /\ (api = "get_repo" \/ op \in WrapsGithubException)
  THEN "Exception"
  ELSE out.cls

\* one API call of the operation in progress, made directly on the client
\* library's objects, and what the operation does with its outcome
AdapterApiCall(out) ==
  /\ adOp # "none"
  /\ AdapterFrame
  /\ adResult.kind = "none"
  /\ LET api == ApiCalls[adOp][adStep]
     IN  /\ adTrace' = Append(adTrace, [ev |-> "api", api |-> api, out |-> out])
         /\ IF out.cls = "ok"
            THEN IF adStep < Len(ApiCalls[adOp])
                 THEN adStep' = adStep + 1 /\ adResult' = adResult
                 ELSE /\ adStep' = adStep
                      /\ adResult' = IF adOp \in ReturnsNone
                                     THEN ReturnedNone
                                     ELSE Returned(out.value)
            ELSE /\ adStep' = adStep
                 /\ adResult' = Raised(api, AdapterError(adOp, api, out), adStep)
  /\ UNCHANGED adOp

AdapterNext ==
  \/ \E op \in AdapterOps : AdapterBegin(op)
  \/ \E out \in Outcomes : AdapterApiCall(out)

(***************************************************************************)
(* The commands of cli.py.  A step is one call a command makes: a client   *)
(* method, a prompt, or the rendering of what it fetched.  Every command   *)
(* starts with get_clients() and runs the rest of its body inside one      *)
(* try / except Exception whose handler prints the error and calls         *)
(* sys.exit(1).                                                            *)
(***************************************************************************)
Commands ==
  { "commit", "push", "pull", "status", "branch", "checkout", "log",
    "create_repo", "list_repos", "review", "create_pr", "list_prs",
    "review_pr", "ask", "quick_commit", "sync", "rate_limit" }

NoOpts ==
  [ all |-> FALSE, files |-> FALSE, ai |-> FALSE, msg |-> FALSE, push |-> FALSE,
    head |-> FALSE, repo |-> FALSE, body |-> FALSE, verbose |-> FALSE,
    staged |-> FALSE ]

\* the flags and arguments each command declares
OptsOf(cmd) ==
  CASE cmd = "commit" ->
         { [NoOpts EXCEPT !.all = a, !.files = f, !.ai = i, !.msg = m] :
             a \in BOOLEAN, f \in BOOLEAN, i \in BOOLEAN, m \in BOOLEAN }
    [] cmd = "quick_commit" ->
         { [NoOpts EXCEPT !.ai = i, !.msg = m, !.push = p] :
             i \in BOOLEAN, m \in BOOLEAN, p \in BOOLEAN }
    [] cmd = "status" -> { [NoOpts EXCEPT !.verbose = v] : v \in BOOLEAN }
    [] cmd = "review" ->
         { [NoOpts EXCEPT !.staged = g, !.ai = i] : g \in BOOLEAN, i \in BOOLEAN }
    [] cmd = "create_pr" ->
         { [NoOpts EXCEPT !.head = h, !.repo = r, !.body = b, !.ai = i] :
             h \in BOOLEAN, r \in BOOLEAN, b \in BOOLEAN, i \in BOOLEAN }
    [] cmd \in { "list_prs", "review_pr" } ->
         { [NoOpts EXCEPT !.repo = r] : r \in BOOLEAN }
    [] OTHER -> { NoOpts }

\* what a step can answer
StepOutcomes(step) ==
  CASE step = "get_diff" -> { "empty", "nonempty", "raise" }
    [] step \in { "generate_commit_message", "generate_pr_description" } ->
         { "text", "empty", "raise" }
    [] step \in { "confirm_message", "confirm_description", "confirm_clone",
                  "confirm_post" } -> { "yes", "no", "raise" }
    [] step \in { "prompt_message", "prompt_replacement" } -> { "text", "raise" }
    [] step = "prompt_description" -> { "text", "empty", "raise" }
    [] step = "status" -> { "dirty", "clean", "raise" }
    [] step = "review_pull_request" -> { "with_comment", "without_comment", "raise" }
    [] step = "review_comment" ->
         IF cliMsg THEN { "ok" } ELSE { "raise" }
    [] OTHER -> { "ok", "raise" }

\* the text in hand after a step
MsgAfter(step, out, msg) ==
  CASE step \in { "generate_commit_message", "generate_pr_description",
                  "prompt_description" } -> out = "text"
    [] step \in { "prompt_message", "prompt_replacement" } -> TRUE
    [] step = "review_pull_request" -> out = "with_comment"
    [] OTHER -> msg

\* variant: no prompt when no message was given
MessageStageNoPrompt(o, msg) ==
  IF o.ai /\ ~msg THEN "generate_commit_message" ELSE "commit"

\* commit and quick-commit, lines 107-120 and 601-614: where the message comes from
MessageStage(o, msg) ==
  IF o.ai /\ ~msg THEN "generate_commit_message"
  ELSE IF ~msg THEN "prompt_message"
  ELSE "commit"

\* create-pr, lines 432-451: where the description comes from
BodyStage(o, msg) ==
  IF o.ai /\ ~msg THEN "get_diff"
  ELSE IF ~msg THEN "prompt_description"
  ELSE "create_pull_request"

\* create-pr, list-prs, review-pr: the repository name, taken from the remote
\* when --repo is not given
RepoStage(cmd, o, msg) ==
  IF ~o.repo THEN "get_remote_url"
  ELSE CASE cmd = "create_pr" -> BodyStage(o, msg)
         [] cmd = "list_prs" -> "list_pull_requests"
         [] OTHER -> "get_pull_request"

\* the first step of a command after get_clients()
First(cmd, o) ==
  CASE cmd = "commit" -> IF o.all \/ o.files THEN "add" ELSE "return"
    [] cmd = "quick_commit" -> "add"
    [] cmd = "push" -> "push"
    [] cmd \in { "pull", "sync" } -> "pull"
    [] cmd = "status" -> "status"
    [] cmd = "branch" -> "create_branch"
    [] cmd = "checkout" -> "checkout"
    [] cmd = "log" -> "get_log"
    [] cmd = "create_repo" -> "create_repository"
    [] cmd = "list_repos" -> "list_repositories"
    [] cmd = "review" -> "get_diff"
    [] cmd = "create_pr" ->
         IF ~o.head THEN "get_current_branch" ELSE RepoStage(cmd, o, o.body)
    [] cmd \in { "list_prs", "review_pr" } -> RepoStage(cmd, o, FALSE)
    [] cmd = "ask" -> "ask_question"
    [] OTHER -> "get_rate_limit_status"

\* the step that follows step, which answered out without raising; msg is
\* the text in hand after it; "return" is the end of the command's body
After(cmd, o, step, out, msg) ==
  CASE step = "get_clients" -> First(cmd, o)
    [] step = "add" -> "get_diff"
    [] step = "get_diff" ->
         CASE cmd \in { "commit", "quick_commit" } ->
                IF out = "empty" THEN "return" ELSE MessageStage(o, msg)
           [] cmd = "review" ->
                IF out = "empty" THEN "return"
                ELSE IF o.ai THEN "review_code_changes" ELSE "return"
           [] cmd = "create_pr" -> "get_log"
           [] OTHER -> "return"
    [] step = "generate_commit_message" -> "confirm_message"
    [] step = "confirm_message" ->
         IF out = "no" THEN "prompt_replacement"
         ELSE IF msg THEN "commit" ELSE "prompt_message"
    [] step \in { "prompt_replacement", "prompt_message" } ->
         IF cmd = "create_pr" THEN "create_pull_request" ELSE "commit"
    [] step = "commit" ->
         IF cmd = "quick_commit" /\ o.push THEN "push" ELSE "return"
    [] step = "push" -> "return"
    [] step = "pull" -> IF cmd = "sync" THEN "status" ELSE "return"
    [] step = "status" ->
         CASE cmd = "sync" -> IF out = "dirty" THEN "report_uncommitted" ELSE "push"
           [] OTHER -> IF o.verbose /\ out = "dirty" THEN "get_diff" ELSE "return"
    [] step \in { "get_log", "list_repositories", "list_pull_requests",
                  "get_rate_limit_status", "review_code_changes" } ->
         IF cmd = "create_pr" THEN "generate_pr_description" ELSE "render"
    [] step = "create_repository" -> "confirm_clone"
    [] step = "confirm_clone" -> IF out = "yes" THEN "get_clients_again" ELSE "return"
    [] step = "get_clients_again" -> "clone_repository"
    [] step = "get_current_branch" -> RepoStage(cmd, o, msg)
    [] step = "get_remote_url" -> "user_login"
    [] step = "user_login" -> RepoStage(cmd, [o EXCEPT !.repo = TRUE], msg)
    [] step = "generate_pr_description" -> "confirm_description"
    [] step = "confirm_description" ->
         IF out = "no" THEN "prompt_description"
         ELSE IF msg THEN "create_pull_request" ELSE "prompt_description"
    [] step = "prompt_description" -> "create_pull_request"
    [] step = "create_pull_request" -> "render"
    [] step = "get_pull_request" -> "get_pr_diff"
    [] step = "get_pr_diff" -> "review_pull_request"
    [] step = "review_pull_request" -> "confirm_post"
    [] step = "confirm_post" -> IF out = "yes" THEN "review_comment" ELSE "return"
    [] step = "review_comment" -> "comment_on_pr"
    [] OTHER -> "return"

\* variant: the handler prints the error and lets the command return
HandlerExitZero(cmd) == 0

\* sys.exit(1) of get_clients and of the handler of every command
HandlerExit(cmd) == 1

\* variant: sync ignores a failing pull
OnRaiseSyncGoesOn(cmd, step) ==
  IF cmd = "sync" /\ step = "pull" THEN "status" ELSE "exited"

\* a raising step leaves the try block: the handler runs and nothing else
OnRaise(cmd, step) == "exited"

CliInit ==
  /\ cliCmd = "none"
  /\ cliOpts = NoOpts
  /\ cliPc = "idle"
  /\ cliSteps = << >>
  /\ cliMsg = FALSE
  /\ cliExit = -1
  /\ cliErr = FALSE

\* the program is started with a command.  Loading cli.py runs its
\* decorators; lines 580 and 629 pass aliases=[...] to click's command(),
\* which the click library (outside the repository) either accepts or
\* rejects with TypeError before any command runs.
CliInvoke(cmd, o, load) ==
  /\ cliPc = "idle"
  /\ CliFrame
  /\ cliCmd' = cmd
  /\ cliOpts' = o
  /\ cliMsg' = (o.msg \/ o.body)
  /\ cliErr' = FALSE
  /\ IF load = "ok"
     THEN /\ cliPc' = "get_clients"
          /\ cliSteps' = << >>
          /\ cliExit' = cliExit
     ELSE /\ cliPc' = "exited"
          /\ cliSteps' = << [step |-> "import", out |-> "raise"] >>
          /\ cliExit' = 1

\* one step of the command in progress, and what the command does with its
\* outcome
CliStep(out) ==
  /\ cliPc \notin { "idle", "exited" }
  /\ CliFrame
  /\ out \in StepOutcomes(cliPc)
  /\ cliSteps' = Append(cliSteps, [step |-> cliPc, out |-> out])
  /\ UNCHANGED << cliCmd, cliOpts >>
  /\ IF out = "raise"
     THEN /\ cliMsg' = cliMsg
          /\ IF OnRaise(cliCmd, cliPc) = "exited"
             THEN /\ cliPc' = "exited"
                  /\ cliErr' = TRUE
                  /\ cliExit' = HandlerExit(cliCmd)
             ELSE /\ cliPc' = OnRaise(cliCmd, cliPc)
                  /\ UNCHANGED << cliErr, cliExit >>
     ELSE LET m   == MsgAfter(cliPc, out, cliMsg)
              nxt == After(cliCmd, cliOpts, cliPc, out, m)
          IN  /\ cliMsg' = m
              /\ cliErr' = cliErr
              /\ IF nxt = "return"
                 THEN cliPc' = "exited" /\ cliExit' = 0
                 ELSE cliPc' = nxt /\ cliExit' = cliExit

CliOutcomes ==
  { "ok", "raise", "empty", "nonempty", "text", "yes", "no", "dirty", "clean",
    "with_comment", "without_comment" }

CliNext ==
  \/ \E cmd \in Commands : \E o \in OptsOf(cmd) : \E load \in { "ok", "TypeError" } :
       CliInvoke(cmd, o, load)
  \/ \E out \in CliOutcomes : CliStep(out)

(***************************************************************************)
(* config.py.  A Python value is a record: its type and its text.          *)
(***************************************************************************)
MaxConfigs == 2

PyStr(s) == [t |-> "str", v |-> s]

PyBool(b) == [t |-> "bool", v |-> IF b THEN << "True" >> ELSE << "False" >>]

PyInt(n) == [t |-> "int", v |-> IntText(n)]

\* no entry under a key
NoValue == [t |-> "absent", v |-> << >>]

\* what indexing a value that is not a dict raises
TypeErrorRaised == [t |-> "TypeError", v |-> << >>]

ConfigSections == { "ai", "git", "github", "cli" }

\* with "extra", a section that a file or set() may add
AllSections == ConfigSections \cup { "extra" }

\* a dict is a function from the keys it holds to their values
EmptyDict == [k \in {} |-> NoValue]

\* lines 21-38
DEFAULT_CONFIG ==
  [ ai     |-> [ model            |-> PyStr(<< "claude-3-5-sonnet-20241022" >>),
                 max_diff_size    |-> PyInt(50000),
                 max_pr_diff_size |-> PyInt(100000) ],
    git    |-> [ default_branch |-> PyStr(<< "main" >>),
                 auto_stage     |-> PyBool(FALSE) ],
    github |-> [ default_private |-> PyBool(FALSE),
                 auto_init       |-> PyBool(TRUE) ],
    cli    |-> [ debug |-> PyBool(FALSE) ] ]

\* the keys DEFAULT_CONFIG gives a section
ConfigKeysOf(s) == DOMAIN DEFAULT_CONFIG[s]

\* what self.config holds for one section
SharedEntry == [kind |-> "shared", d |-> EmptyDict, val |-> NoValue]

AbsentEntry == [kind |-> "absent", d |-> EmptyDict, val |-> NoValue]

OwnEntry(d) == [kind |-> "own", d |-> d, val |-> NoValue]

ScalarEntry(v) == [kind |-> "scalar", d |-> EmptyDict, val |-> v]

\* self.DEFAULT_CONFIG.copy(), line 47: a new top-level dict whose values
\* are the section dicts of the class themselves
FreshTop ==
  [s \in AllSections |-> IF s \in ConfigSections THEN SharedEntry ELSE AbsentEntry]

(***************************************************************************)
(* The configuration file as yaml.safe_load returns it: for each section   *)
(* nothing, a dict of keys, or a value that is not a dict.                 *)
(***************************************************************************)
FileModel == PyStr(<< "file-model" >>)

FileBranch == PyStr(<< "trunk" >>)

\* no file found (or PyYAML missing), and a file whose content is not a mapping
NoFile == [kind |-> "none", top |-> [s \in AllSections |-> AbsentEntry]]

InvalidFile == [kind |-> "invalid", top |-> [s \in AllSections |-> AbsentEntry]]

\* a file that holds the sections given; "extra" is a section, "extra_key" a
\* key, that DEFAULT_CONFIG does not have
FileWith(sections) == [kind |-> "dict", top |-> sections @@ NoFile.top]

Files ==
  { NoFile,
    InvalidFile,
    FileWith([ai |-> OwnEntry([model |-> FileModel])]),
    FileWith([ai |-> ScalarEntry(PyStr(<< "off" >>))]),
    FileWith([git |-> OwnEntry([default_branch |-> FileBranch]),
              extra |-> OwnEntry([extra_key |-> PyInt(1)])]),
    FileWith([ai |-> OwnEntry([model |-> FileModel]),
              git |-> OwnEntry([default_branch |-> FileBranch])]) }

(***************************************************************************)
(* The environment: each mapped variable unset, or set to a text.          *)
(***************************************************************************)
Unset == [set |-> FALSE, text |-> << >>]

SetTo(s) == [set |-> TRUE, text |-> s]

NoEnv == [ANTHROPIC_MODEL |-> Unset, GH_ASSIST_DEBUG |-> Unset,
          GH_ASSIST_DEFAULT_BRANCH |-> Unset]

EnvModel == SetTo(<< "o", "p", "u", "s" >>)

EnvBranch == SetTo(<< "d", "e", "v" >>)

Envs ==
  { NoEnv,
    [NoEnv EXCEPT !.ANTHROPIC_MODEL = EnvModel],
    [NoEnv EXCEPT !.GH_ASSIST_DEBUG = SetTo(<< "T", "R", "U", "E" >>)],
    [NoEnv EXCEPT !.GH_ASSIST_DEBUG = SetTo(<< "0", "1" >>),
                  !.GH_ASSIST_DEFAULT_BRANCH = EnvBranch],
    [NoEnv EXCEPT !.ANTHROPIC_MODEL = EnvModel,
                  !.GH_ASSIST_DEFAULT_BRANCH = EnvBranch] }

\* env_mappings, lines 100-104, in the order the loop visits them
env_mappings ==
  << [var |-> "ANTHROPIC_MODEL", section |-> "ai", key |-> "model"],
     [var |-> "GH_ASSIST_DEBUG", section |-> "cli", key |-> "debug"],
     [var |-> "GH_ASSIST_DEFAULT_BRANCH", section |-> "git", key |-> "default_branch"] >>

\* str.isdigit()
IsDigit(s) ==
  s # << >> /\ \A i \in 1..Len(s) : \E j \in 1..Len(DigitChars) : DigitChars[j] = s[i]

DigitValue(c) == (CHOOSE j \in 1..Len(DigitChars) : DigitChars[j] = c) - 1

\* int(s) of a text of digits
RECURSIVE IntOf(_)
IntOf(s) ==
  IF s = << >> THEN 0
  ELSE 10 * IntOf(SubSeq(s, 1, Len(s) - 1)) + DigitValue(s[Len(s)])

\* lines 110-114: the value the environment text stands for
EnvValue(s) ==
  IF Lower(s) = << "t", "r", "u", "e" >> THEN PyBool(TRUE)
  ELSE IF Lower(s) = << "f", "a", "l", "s", "e" >> THEN PyBool(FALSE)
  ELSE IF IsDigit(s) THEN PyInt(IntOf(s))
  ELSE PyStr(s)

\* the inner pass of _merge_config, lines 92-96, on a section dict whose
\* values are not dicts: every key of override is assigned
Override(base, override) ==
  [k \in (DOMAIN base) \cup (DOMAIN override) |->
     IF k \in DOMAIN override THEN override[k] ELSE base[k]]

\* d[key] = value
Assigned(d, key, value) ==
  [k \in (DOMAIN d) \cup { key } |-> IF k = key THEN value ELSE d[k]]

\* d[key], or NoValue where Python raises KeyError
Lookup(d, key) == IF key \in DOMAIN d THEN d[key] ELSE NoValue

\* _merge_config(self.config, user_config), lines 90-96.  st holds the
\* section dicts of the class and the top-level dict of the object.  A
\* section that is a dict on both sides is merged in place, in the dict
\* that self.config refers to; any other section of the file is assigned.
MergeConfig(st, file) ==
  [ st EXCEPT
      !.shared = [s \in ConfigSections |->
                    IF file.top[s].kind = "own" /\ st.top[s].kind = "shared"
                    THEN Override(st.shared[s], file.top[s].d)
                    ELSE st.shared[s]],
      !.top = [s \in AllSections |->
                 IF file.top[s].kind = "absent" THEN st.top[s]
                 ELSE IF file.top[s].kind = "scalar" THEN file.top[s]
                 ELSE IF st.top[s].kind = "shared" THEN st.top[s]
                 ELSE IF st.top[s].kind = "own"
                 THEN OwnEntry(Override(st.top[s].d, file.top[s].d))
                 ELSE file.top[s]] ]

\* self.config[section][key] = value, lines 116 and 144: the assignment
\* goes to the dict that self.config[section] refers to
AssignKey(st, section, key, value) ==
  IF st.top[section].kind = "shared"
  THEN [st EXCEPT !.shared[section] = Assigned(@, key, value)]
  ELSE IF st.top[section].kind = "own"
  THEN [st EXCEPT !.top[section].d = Assigned(@, key, value)]
  ELSE [st EXCEPT !.raised = TRUE]

\* _load_from_env, lines 106-117, from mapping i on
RECURSIVE LoadFromEnv(_, _, _)
LoadFromEnv(st, env, i) ==
  IF i > Len(env_mappings) \/ st.raised THEN st
  ELSE LET m == env_mappings[i]
       IN  IF env[m.var].set
           THEN LoadFromEnv(AssignKey(st, m.section, m.key, EnvValue(env[m.var].text)),
                            env, i + 1)
           ELSE LoadFromEnv(st, env, i + 1)

\* Config.__init__, lines 47-54, run on the section dicts shared
Construct(shared, file, env) ==
  LET copied == [shared |-> shared, top |-> FreshTop, raised |-> FALSE]
      loaded == IF file.kind = "dict" THEN MergeConfig(copied, file) ELSE copied
  IN  LoadFromEnv(loaded, env, 1)

\* Config.get(section, key), lines 131-134, with default None
Get(shared, top, section, key) ==
  IF top[section].kind = "shared" THEN Lookup(shared[section], key)
  ELSE IF top[section].kind = "own" THEN Lookup(top[section].d, key)
  ELSE IF top[section].kind = "scalar" THEN TypeErrorRaised
  ELSE NoValue

NoConfig == [exists |-> FALSE, top |-> FreshTop]

NoOperation == [op |-> "none", file |-> NoFile, env |-> NoEnv, raised |-> FALSE]

ConfigInit ==
  /\ cfgShared = DEFAULT_CONFIG
  /\ cfgInst = NoConfig
  /\ cfgCount = 0
  /\ cfgLast = NoOperation

\* Config(): the file found and the environment are the inputs
ConfigNew(file, env) ==
  /\ cfgCount < MaxConfigs
  /\ ConfigFrame
  /\ LET st == Construct(cfgShared, file, env)
     IN  /\ cfgShared' = st.shared
         /\ cfgInst' = IF st.raised THEN cfgInst
                       ELSE [exists |-> TRUE, top |-> st.top]
         /\ cfgLast' = [op |-> "init", file |-> file, env |-> env, raised |-> st.raised]
  /\ cfgCount' = cfgCount + 1

SetValue == PyStr(<< "set" >>)

\* the calls of set() made
SetCalls ==
  { << "ai", "model" >>, << "git", "auto_stage" >>, << "extra", "extra_key" >> }

\* Config.set(section, key, value), lines 142-144
ConfigSet(section, key, value) ==
  /\ cfgInst.exists
  /\ ConfigFrame
  /\ LET before  == [shared |-> cfgShared, top |-> cfgInst.top, raised |-> FALSE]
         created == IF before.top[section].kind = "absent"
                    THEN [before EXCEPT !.top[section] = OwnEntry(EmptyDict)]
                    ELSE before
         st      == AssignKey(created, section, key, value)
     IN  /\ cfgShared' = st.shared
         /\ cfgInst' = [cfgInst EXCEPT !.top = st.top]
         /\ cfgLast' = [cfgLast EXCEPT !.op = "set", !.raised = st.raised]
  /\ cfgCount' = cfgCount

ConfigNext ==
  \/ \E file \in Files : \E env \in Envs : ConfigNew(file, env)
  \/ \E c \in SetCalls : ConfigSet(c[1], c[2], SetValue)

(***************************************************************************)
(* The review methods of ai_agent.py and their extraction of a JSON        *)
(* object from the response text.  A text is a sequence of tokens:         *)
(*   "F" three backticks     "j" the word json     "s" a space             *)
(*   "{"  "}"  ":"           "q" a double quote    "1" a digit             *)
(* Response texts are built from a few segments, so that fenced blocks,    *)
(* bare objects, strings holding fences and stray braces all occur.        *)
(***************************************************************************)
MaxSegments == 3

Segments ==
  { << "{", "q" >>,
    << "q", ":", "1", "}" >>,
    << "F", "{", "1", "}", "F" >>,
    << "F", "j", "s", "{", "q", "q", ":", "1", "}", "s", "F" >>,
    << "{", "q", "j", "q", ":", "1", "}" >>,
    << "j" >>,
    << "s" >>,
    << "{" >>,
    << "}" >>,
    << "F" >> }

RECURSIVE TextsOf(_)
TextsOf(n) ==
  IF n = 0 THEN { << >> }
  ELSE LET shorter == TextsOf(n - 1)
       IN  shorter \cup { t \o g : t \in shorter, g \in Segments }

Texts == TextsOf(MaxSegments)

\* \s* from position i: the first position at or after i that holds no space
SkipWs(t, i) ==
  CHOOSE k \in i..(Len(t) + 1) :
    /\ \A m \in i..(k - 1) : t[m] = "s"
    /\ k = Len(t) + 1 \/ t[k] # "s"

Is(t, i, tok) == i >= 1 /\ i <= Len(t) /\ t[i] = tok

\* where "{" stands if ```(?:json)?\s*\{ matches at position i
FenceOpen(t, i) ==
  SkipWs(t, IF Is(t, i + 1, "j") THEN i + 2 ELSE i + 1)

\* the positions of "}" at which \{.*?\}\s*``` can end, the group opening at b
FenceCloses(t, b) ==
  { e \in (b + 1)..Len(t) : t[e] = "}" /\ Is(t, SkipWs(t, e + 1), "F") }

FenceMatchesAt(t, i) ==
  /\ Is(t, i, "F")
  /\ Is(t, FenceOpen(t, i), "{")
  /\ FenceCloses(t, FenceOpen(t, i)) # {}

MinOf(S) == CHOOSE x \in S : \A y \in S : x <= y

MaxOf(S) == CHOOSE x \in S : \A y \in S : x >= y

NoSpan == << >>

\* re.search(r'```(?:json)?\s*(\{.*?\})\s*```', text, re.DOTALL).group(1):
\* the leftmost match, its group ending at the first "}" that closes it
FenceGroup(t) ==
  LET starts == { i \in 1..Len(t) : FenceMatchesAt(t, i) }
  IN  IF starts = {} THEN NoSpan
      ELSE LET b == FenceOpen(t, MinOf(starts))
           IN  SubSeq(t, b, MinOf(FenceCloses(t, b)))

\* text[text.find('{') : text.rfind('}') + 1] when start >= 0 and end > start
BraceSpan(t) ==
  LET opens  == { i \in 1..Len(t) : t[i] = "{" }
      closes == { i \in 1..Len(t) : t[i] = "}" }
  IN  IF opens # {} /\ closes # {} /\ MaxOf(closes) > MinOf(opens)
      THEN SubSeq(t, MinOf(opens), MaxOf(closes))
      ELSE NoSpan

\* the end of the JSON string that opens at position i, 0 when there is none
ParseString(t, i) ==
  LET quotes == { k \in (i + 1)..Len(t) : t[k] = "q" }
  IN  IF Is(t, i, "q") /\ quotes # {} THEN MinOf(quotes) + 1 ELSE 0

\* the end of the JSON number that opens at position i, 0 when there is none
ParseNumber(t, i) ==
  IF Is(t, i, "1")
  THEN CHOOSE k \in (i + 1)..(Len(t) + 1) :
         /\ \A m \in i..(k - 1) : t[m] = "1"
         /\ k = Len(t) + 1 \/ t[k] # "1"
  ELSE 0

\* the position after the JSON value that opens at position i, 0 when the
\* text holds no value there: a string, a number, or an object with no
\* member or one member
RECURSIVE ParseValue(_, _)
ParseValue(t, i) ==
  IF Is(t, i, "q") THEN ParseString(t, i)
  ELSE IF Is(t, i, "1") THEN ParseNumber(t, i)
  ELSE IF Is(t, i, "{")
  THEN LET a == SkipWs(t, i + 1)
       IN  IF Is(t, a, "}") THEN a + 1
           ELSE LET k == ParseString(t, a)
                IN  IF k = 0 THEN 0
                    ELSE LET c == SkipWs(t, k)
                         IN  IF ~Is(t, c, ":") THEN 0
                             ELSE LET v == ParseValue(t, SkipWs(t, c + 1))
                                  IN  IF v = 0 THEN 0
                                      ELSE LET d == SkipWs(t, v)
                                           IN  IF Is(t, d, "}") THEN d + 1 ELSE 0
  ELSE 0

\* json.loads(t) returns rather than raises
Parseable(t) ==
  LET v == ParseValue(t, SkipWs(t, 1))
  IN  v # 0 /\ SkipWs(t, v) = Len(t) + 1

\* the value json.loads(t) returns: the text without the spaces that stand
\* outside its strings
RECURSIVE Decode(_, _)
Decode(t, inString) ==
  IF t = << >> THEN << >>
  ELSE LET nowIn == IF Head(t) = "q" THEN ~inString ELSE inString
       IN  IF Head(t) = "s" /\ ~inString
           THEN Decode(Tail(t), nowIn)
           ELSE << Head(t) >> \o Decode(Tail(t), nowIn)

NoReview == [ kind |-> "none", field |-> "", text |-> << >>, error |-> FALSE ]

\* the object parsed from the response
Parsed(t) == [ kind |-> "object", field |-> "", text |-> Decode(t, FALSE), error |-> FALSE ]

\* the default dict: the raw text under one field, "error" set by the handler
RawText(field, t, err) == [ kind |-> "raw", field |-> field, text |-> t, error |-> err ]

ApiError == [ kind |-> "raised", field |-> "", text |-> << >>, error |-> TRUE ]

\* lines 114-149: a fence match is parsed and nothing else is tried; with no
\* match the brace span is parsed; json.loads raising in either place goes
\* to the handler; with neither the default dict is returned
review_code_changes(t) ==
  IF FenceGroup(t) # NoSpan
  THEN IF Parseable(FenceGroup(t))
       THEN Parsed(FenceGroup(t))
       ELSE RawText("summary", t, TRUE)
  ELSE IF BraceSpan(t) # NoSpan
  THEN IF Parseable(BraceSpan(t))
       THEN Parsed(BraceSpan(t))
       ELSE RawText("summary", t, TRUE)
  ELSE RawText("summary", t, FALSE)

\* lines 201-215: only the brace span is tried
review_pull_request(t) ==
  IF BraceSpan(t) # NoSpan
  THEN IF Parseable(BraceSpan(t))
       THEN Parsed(BraceSpan(t))
       ELSE RawText("review_comment", t, TRUE)
  ELSE RawText("review_comment", t, FALSE)

AgentInit ==
  /\ agFn = "none"
  /\ agText = << >>
  /\ agResult = NoReview

\* review_code_changes receives the response text t
ReviewCodeChanges(t) ==
  /\ agFn = "none"
  /\ AgentFrame
  /\ agFn' = "review_code_changes"
  /\ agText' = t
  /\ agResult' = review_code_changes(t)

\* review_pull_request receives the response text t
ReviewPullRequest(t) ==
  /\ agFn = "none"
  /\ AgentFrame
  /\ agFn' = "review_pull_request"
  /\ agText' = t
  /\ agResult' = review_pull_request(t)

\* messages.create raises, lines 105 and 195, outside the try: it propagates
ReviewApiError(fn) ==
  /\ agFn = "none"
  /\ AgentFrame
  /\ agFn' = fn
  /\ agText' = << >>
  /\ agResult' = ApiError

AgentNext ==
  \/ \E t \in Texts : ReviewCodeChanges(t)
  \/ \E t \in Texts : ReviewPullRequest(t)
  \/ \E fn \in { "review_code_changes", "review_pull_request" } : ReviewApiError(fn)

(***************************************************************************)
(* git_client.py.  Every method but the constructor, init_repository,      *)
(* clone_repository and is_repo starts with self._ensure_repo().           *)
(***************************************************************************)
MaxEngineCalls == 3

\* the methods that work on self.repo
RepoOps ==
  { "status", "get_diff", "get_log", "add", "reset", "commit", "amend_commit",
    "create_branch", "checkout", "delete_branch", "list_branches",
    "get_current_branch", "add_remote", "remove_remote", "list_remotes", "fetch",
    "pull", "push", "merge", "abort_merge", "stash", "stash_pop", "stash_list",
    "create_tag", "delete_tag", "list_tags", "get_remote_url" }

\* variant: a method that does not check self.repo
EnsureRepoMissing(repo) == FALSE

\* _ensure_repo raises, lines 354-355
EnsureRepoRaises(repo) == ~repo

NoCall == [op |-> "none", had |-> FALSE, engine |-> 0, out |-> "none"]

GitInit ==
  /\ gcClient = "none"
  /\ gcRepo = FALSE
  /\ gcEngine = 0
  /\ gcLast = NoCall

\* GitClient(path), lines 12-18: the path holds a repository, or holds none
\* (InvalidGitRepositoryError, caught), or Repo() raises something else and
\* no client comes to exist
GitNew(found) ==
  /\ gcClient = "none"
  /\ GitFrame
  /\ gcClient' = IF found = "raise" THEN "none" ELSE "made"
  /\ gcRepo' = (found = "repo")
  /\ gcLast' = [op |-> "__init__", had |-> FALSE, engine |-> 0,
                out |-> IF found = "raise" THEN "error" ELSE "ok"]
  /\ gcEngine' = gcEngine

\* init_repository and clone_repository, lines 20-36: self.repo is assigned
\* only when the engine call returns
GitMakeRepository(op, out) ==
  /\ gcClient = "made"
  /\ gcEngine < MaxEngineCalls
  /\ GitFrame
  /\ gcRepo' = IF out = "ok" THEN TRUE ELSE gcRepo
  /\ gcEngine' = gcEngine + 1
  /\ gcLast' = [op |-> op, had |-> gcRepo, engine |-> 1, out |-> out]
  /\ gcClient' = gcClient

\* a method of RepoOps: the guard, then the work on self.repo
GitOperation(op, out) ==
  /\ gcClient = "made"
  /\ gcEngine < MaxEngineCalls
  /\ GitFrame
  /\ UNCHANGED << gcClient, gcRepo >>
  /\ IF EnsureRepoRaises(gcRepo)
     THEN /\ gcLast' = [op |-> op, had |-> gcRepo, engine |-> 0, out |-> "NotARepo"]
          /\ gcEngine' = gcEngine
     ELSE IF ~gcRepo
     THEN \* an attribute of None
          /\ gcLast' = [op |-> op, had |-> gcRepo, engine |-> 0, out |-> "AttributeError"]
          /\ gcEngine' = gcEngine
     ELSE /\ gcLast' = [op |-> op, had |-> gcRepo, engine |-> 1, out |-> out]
          /\ gcEngine' = gcEngine + 1

\* is_repo(), line 359
GitIsRepo ==
  /\ gcClient = "made"
  /\ GitFrame
  /\ UNCHANGED << gcClient, gcRepo, gcEngine >>
  /\ gcLast' = [op |-> "is_repo", had |-> gcRepo, engine |-> 0,
                out |-> IF gcRepo THEN "true" ELSE "false"]

GitNext ==
  \/ \E found \in { "repo", "none", "raise" } : GitNew(found)
  \/ \E op \in { "init_repository", "clone_repository" } :
       \E out \in { "ok", "error" } : GitMakeRepository(op, out)
  \/ \E op \in RepoOps : \E out \in { "ok", "error" } : GitOperation(op, out)
  \/ GitIsRepo

(***************************************************************************)
(* AIAgent._truncate_diff, lines 28-36.  A diff is a sequence of           *)
(* characters; the marker is one piece of text.                            *)
(***************************************************************************)
MaxDiffLen == 4

MaxTruncSize == 3

DiffChars == { "+", "-" }

RECURSIVE DiffsOf(_)
DiffsOf(n) ==
  IF n = 0 THEN { << >> }
  ELSE LET shorter == DiffsOf(n - 1)
       IN  shorter \cup { Append(d, c) : d \in shorter, c \in DiffChars }

Diffs == DiffsOf(MaxDiffLen)

\* the text appended at line 35
TruncationMarker ==
  << "\n\n... (diff truncated to prevent excessive API costs)" >>

\* variant: a diff of exactly max_size characters counts as too long
FitsStrictly(diff, max_size) == Len(diff) < max_size

\* len(diff) <= max_size
Fits(diff, max_size) == Len(diff) <= max_size

\* diff[:max_size] for max_size >= 0
Prefix(diff, max_size) == SubSeq(diff, 1, Min(max_size, Len(diff)))

_truncate_diff(diff, max_size) ==
  IF Fits(diff, max_size)
  THEN [text |-> diff, truncated |-> FALSE]
  ELSE [text |-> Prefix(diff, max_size) \o TruncationMarker, truncated |-> TRUE]

NoTruncation == [text |-> << >>, truncated |-> FALSE]

TruncateInit ==
  /\ tdDiff = << >>
  /\ tdMax = -1
  /\ tdResult = NoTruncation

\* one call; max_size stands for MAX_DIFF_SIZE or MAX_PR_DIFF_SIZE
TruncateDiff(diff, max_size) ==
  /\ tdMax = -1
  /\ TruncateFrame
  /\ tdDiff' = diff
  /\ tdMax' = max_size
  /\ tdResult' = _truncate_diff(diff, max_size)

TruncateNext ==
  \E diff \in Diffs : \E max_size \in 0..MaxTruncSize : TruncateDiff(diff, max_size)

Init ==
  /\ WrapperInit /\ AdapterInit /\ CliInit /\ AgentInit /\ ConfigInit
  /\ GitInit /\ TruncateInit

Next == WrapperNext

\* one invocation of _handle_rate_limit
Spec == Init /\ [][Next]_vars

\* one operation of the client, as the command surface calls it
AdapterSpec == Init /\ [][AdapterNext]_vars

\* one GitClient and the methods called on it
GitSpec == Init /\ [][GitNext]_vars

\* one call of _truncate_diff
TruncateSpec == Init /\ [][TruncateNext]_vars

\* Config objects built and set in one process
ConfigSpec == Init /\ [][ConfigNext]_vars

\* one call of a review method of the agent
AgentSpec == Init /\ [][AgentNext]_vars

\* one run of the command-line program
CliSpec == Init /\ [][CliNext]_vars

\* one invocation of _handle_rate_limit in which every call it makes (func,
\* the query, the sleep) returns or raises: the single thread then takes its
\* next step
FairSpec == Spec /\ WF_vars(Next)

(***************************************************************************)
(* Vocabulary of the properties.  The retryable conditions are written out *)
(* here case by case, independently of the operators the wrapper uses.     *)
(***************************************************************************)
\* the sample messages that contain "rate limit" when case is ignored
RateLimitMessages == { MsgApiRateLimit, MsgRateLimitCaps }

ExplicitSignal(out) == out.cls = "RateLimitExceededException"

Generic403RateLimit(out) ==
  out.cls = "GithubException" /\ out.status = 403 /\ out.msg \in RateLimitMessages

RetryableCondition(out) == ExplicitSignal(out) \/ Generic403RateLimit(out)

Failure(out) == out.cls # "ok"

IsCall(i) == trace[i].ev = "call"

\* the durations of the sleeps the invocation made, in order
SleepSecs == [i \in 1..NumSleeps |-> EventsOf(trace, "sleep")[i].arg]

RECURSIVE SumSeq(_)
SumSeq(s) == IF s = << >> THEN 0 ELSE Head(s) + SumSeq(Tail(s))

\* the event at position i ended the invocation
EndedAt(i) == i = Len(trace) /\ pc = "Done"

(***************************************************************************)
(* C1: whatever the outcomes of the wrapped operation, one invocation of   *)
(* _handle_rate_limit calls the operation at most 3 times and sleeps at    *)
(* most 2 times; both retryable kinds draw on the same attempt budget.     *)
(***************************************************************************)
C1_AtMostThreeCallsTwoSleeps == NumCalls <= 3 /\ NumSleeps <= 2

\* three calls and two sleeps, one retry of each kind
C1_Witness ==
  /\ NumCalls = 3
  /\ NumSleeps = 2
  /\ \E i, j \in DOMAIN trace :
       /\ IsCall(i) /\ ExplicitSignal(trace[i].out)
       /\ IsCall(j) /\ Generic403RateLimit(trace[j].out)

(***************************************************************************)
(* C2: a successful attempt k ends the invocation: the wrapper returns the *)
(* value of that attempt unchanged, and no call, sleep or query follows.   *)
(***************************************************************************)
C2_SuccessReturnsThatValue ==
  \A i \in DOMAIN trace :
    (IsCall(i) /\ trace[i].out.cls = "ok") =>
      /\ EndedAt(i)
      /\ result.kind = "returned"
      /\ result.value = trace[i].out.value

\* success on the third attempt after two retryable failures
C2_Witness ==
  /\ pc = "Done"
  /\ NumCalls = 3
  /\ trace[Len(trace)].out.cls = "ok"
  /\ result = Returned(2)

(***************************************************************************)
(* C3: a non-retryable failure of an attempt is propagated at once: it is  *)
(* the last thing the invocation did (no sleep, query or further attempt), *)
(* and the invocation raises that attempt's error; an operation that only  *)
(* fails this way has been called exactly once.                            *)
(***************************************************************************)
C3_NonRetryablePropagatesAtOnce ==
  /\ \A i \in DOMAIN trace :
       (IsCall(i) /\ Failure(trace[i].out) /\ ~RetryableCondition(trace[i].out)) =>
         /\ EndedAt(i)
         /\ result = Raised("operation", trace[i].out.cls, trace[i].arg)
  /\ (NumCalls >= 1 /\ \A i \in DOMAIN trace :
        IsCall(i) => (Failure(trace[i].out) /\ ~RetryableCondition(trace[i].out)))
       => (NumCalls = 1 /\ NumSleeps = 0 /\ NumQueries = 0)

\* a 403 without the rate-limit text ended the invocation on the first attempt
C3_Witness ==
  /\ pc = "Done"
  /\ NumCalls = 1
  /\ trace[1].out.status = 403
  /\ trace[1].out.msg = MsgForbiddenScope
  /\ result.kind = "raised"

(***************************************************************************)
(* C4: an operation that fails with a retryable condition on every attempt *)
(* is attempted exactly 3 times with exactly 2 sleeps, one after attempt 1 *)
(* and one after attempt 2, nothing follows attempt 3, and the error of    *)
(* attempt 3 is raised.  (Stated for invocations whose rate-limit queries  *)
(* all answered with a numeric reset time.)                                *)
(***************************************************************************)
C4_AlwaysRetryableThreeAttempts ==
  ( /\ pc = "Done"
    /\ result.err.src \notin { "query", "subtract" }
    /\ \A i \in DOMAIN trace : IsCall(i) => RetryableCondition(trace[i].out) )
  =>
  ( /\ NumCalls = 3
    /\ NumSleeps = 2
    /\ result.kind = "raised"
    /\ result.err.src = "operation"
    /\ result.err.n = 3 )

(***************************************************************************)
(* C5: with attempts remaining, a failed attempt opens a retry branch      *)
(* (the invocation does not end with that failure) exactly when it is the  *)
(* explicit rate-limit signal or a generic 403 failure whose message       *)
(* contains "rate limit" in any letter case.                               *)
(***************************************************************************)
C5_RetryableIffExplicitOr403RateLimit ==
  \A i \in DOMAIN trace :
    (IsCall(i) /\ Failure(trace[i].out) /\ trace[i].arg < 3) =>
      (RetryableCondition(trace[i].out) <=> ~EndedAt(i))

\* a 403 whose message spells Rate Limit with capitals was retried, and a
\* 404 carrying the rate-limit text then ended the invocation
C5_Witness ==
  /\ pc = "Done"
  /\ NumCalls = 2
  /\ trace[1].out.cls = "GithubException"
  /\ trace[1].out.msg = MsgRateLimitCaps
  /\ trace[Len(trace)].out.status = 404
  /\ trace[Len(trace)].out.msg = MsgApiRateLimit

(***************************************************************************)
(* C6: after an explicit rate-limit failure with attempts remaining, the   *)
(* wrapper queries the window and sleeps min((reset - now) + 5, 60)        *)
(* seconds, reset being the answer to that query, before the next attempt. *)
(* (Stated for queries that answered with a numeric reset time.)           *)
(***************************************************************************)
C6_ExplicitSleepsUntilReset ==
  \A i \in DOMAIN trace :
    (trace[i].ev = "query" /\ pc # "Waiting" /\ result.err.src \notin { "query", "subtract" }) =>
      /\ i + 2 <= Len(trace)
      /\ trace[i + 2].ev = "sleep"
      /\ trace[i + 2].arg = Min((trace[i].arg - trace[i].at) + 5, 60)

(***************************************************************************)
(* C7: after a generic 403 rate-limit failure with attempts remaining, the *)
(* wrapper sleeps exactly 60 seconds and makes no rate-limit query for     *)
(* that retry.                                                             *)
(***************************************************************************)
C7_Generic403SleepsSixty ==
  \A i \in DOMAIN trace :
    (IsCall(i) /\ Generic403RateLimit(trace[i].out) /\ trace[i].arg < 3) =>
      \/ (i = Len(trace) /\ pc = "Waiting")
      \/ /\ i + 2 <= Len(trace)
         /\ trace[i + 1].ev = "warning"
         /\ trace[i + 2].ev = "sleep"
         /\ trace[i + 2].arg = 60
         /\ (i + 3 <= Len(trace) => trace[i + 3].ev = "call")

\* the message of the scenario, retried once, with no query at all
C7_Witness ==
  /\ NumCalls = 2
  /\ trace[1].out.cls = "GithubException"
  /\ trace[1].out.msg = MsgApiRateLimit
  /\ NumSleeps = 1
  /\ NumQueries = 0

(***************************************************************************)
(* C9: every sleep of an invocation lasts at most 60 seconds and all its   *)
(* sleeps together at most 120 seconds, whatever reset times are reported. *)
(***************************************************************************)
C9_SleepsBounded ==
  /\ \A i \in DOMAIN SleepSecs : SleepSecs[i] <= 60
  /\ SumSeq(SleepSecs) <= 120

\* two capped sleeps, the first for a reset further than 60 seconds away
C9_Witness ==
  /\ NumSleeps = 2
  /\ SumSeq(SleepSecs) = 120
  /\ \E i \in DOMAIN trace : trace[i].ev = "warning" /\ trace[i].arg > 60

(***************************************************************************)
(* C10: when the explicit path computes a negative wait, the wrapper       *)
(* sleeps max(wait, 0) = 0 seconds and goes on to the next attempt; the    *)
(* wait step does not end the invocation.                                  *)
(***************************************************************************)
C10_NegativeWaitStillProceeds ==
  \A i \in DOMAIN trace :
    (trace[i].ev = "warning" /\ trace[i].arg < 0 /\ pc # "Waiting") =>
      /\ ~EndedAt(i)
      /\ i + 1 <= Len(trace)
      /\ trace[i + 1].ev = "sleep"
      /\ trace[i + 1].arg = 0

(***************************************************************************)
(* C8: every adapter operation the command surface uses runs through the   *)
(* retry wrapper: an API call of the operation that is rejected with a     *)
(* retryable rate-limit failure, with attempts remaining, does not end the *)
(* operation with an error; it is waited out and attempted again.          *)
(***************************************************************************)
C8_AdapterOperationsRetry ==
  \A i \in DOMAIN adTrace :
    ( /\ adTrace[i].ev = "api"
      /\ RetryableCondition(adTrace[i].out)
      /\ Cardinality({ j \in 1..i : adTrace[j].ev = "api"
                                      /\ adTrace[j].api = adTrace[i].api }) < 3 )
    => ~(i = Len(adTrace) /\ adResult.kind = "raised")

(***************************************************************************)
(* C11: when the third attempt fails with a retryable condition, the       *)
(* invocation raises the error object of that third call itself, not a     *)
(* wrapped or new error, on the explicit path and on the generic path.     *)
(***************************************************************************)
C11_ExhaustedReraisesOriginal ==
  \A i \in DOMAIN trace :
    (IsCall(i) /\ trace[i].arg = 3 /\ RetryableCondition(trace[i].out)) =>
      /\ pc = "Done"
      /\ result.kind = "raised"
      /\ result.err.src = "operation"
      /\ result.err.n = 3
      /\ result.err.cls = trace[i].out.cls

\* retries exhausted by a generic 403 after an explicit signal
C11_Witness ==
  /\ pc = "Done"
  /\ NumCalls = 3
  /\ ExplicitSignal(trace[1].out)
  /\ \E i \in DOMAIN trace :
       IsCall(i) /\ trace[i].arg = 3 /\ Generic403RateLimit(trace[i].out)
  /\ result.err.cls = "GithubException"

\* the calls of time.sleep, whether they returned or raised
IsSleepCall(i) == trace[i].ev \in { "sleep", "sleep_error" }

(***************************************************************************)
(* C12: every call of time.sleep comes right after one warning and every   *)
(* warning is followed by a call of time.sleep, on both retryable paths,   *)
(* so warnings and sleeps started are equal in number; a warning only      *)
(* follows a retryable failure of attempt 1 or 2 (with its query on the    *)
(* explicit path), never a success, a non-retryable failure or attempt 3.  *)
(***************************************************************************)
C12_WarningBeforeEachSleep ==
  /\ \A i \in DOMAIN trace :
       IsSleepCall(i) => (i > 1 /\ trace[i - 1].ev = "warning")
  /\ \A i \in DOMAIN trace :
       trace[i].ev = "warning" =>
         /\ i < Len(trace) /\ IsSleepCall(i + 1)
         /\ i > 1
         /\ LET c == IF trace[i - 1].ev = "query" THEN i - 2 ELSE i - 1
            IN  /\ c >= 1
                /\ IsCall(c)
                /\ RetryableCondition(trace[c].out)
                /\ trace[c].arg < 3
  /\ NumWarnings = Cardinality({ i \in DOMAIN trace : IsSleepCall(i) })

\* one warning and sleep on each path
C12_Witness ==
  /\ NumWarnings = 2
  /\ NumSleeps = 2
  /\ NumQueries = 1
  /\ NumCalls = 3

\* the outcome of the call of func made by the step just taken
LastCallOutcome == EventsOf(trace', "call")[Len(EventsOf(trace', "call"))].out

LastCallNumber == Len(EventsOf(trace', "call"))

(***************************************************************************)
(* C13: the wrapper starts in Attempting and takes only these transitions: *)
(* Attempting to Done on success, on a non-retryable failure, or on a      *)
(* retryable failure of the last attempt; Attempting to Waiting on a       *)
(* retryable failure with attempts remaining; Waiting to Attempting and    *)
(* nowhere else; nothing happens after Done.                               *)
(***************************************************************************)
C13_OnlySpecifiedTransitions ==
  /\ pc = "Attempting"
  /\ [][ /\ pc = "Attempting" =>
              \/ /\ pc' = "Done"
                 /\ \/ ~Failure(LastCallOutcome)
                    \/ ~RetryableCondition(LastCallOutcome)
                    \/ LastCallNumber = 3
              \/ /\ pc' = "Waiting"
                 /\ RetryableCondition(LastCallOutcome)
                 /\ LastCallNumber < 3
         /\ pc = "Waiting" => pc' = "Attempting"
         /\ pc = "Done" => UNCHANGED vars ]_vars

(***************************************************************************)
(* C14: when every call the wrapper makes returns or raises, every         *)
(* invocation reaches Done, whatever the sequence of failures.             *)
(***************************************************************************)
C14_EventuallyDone == <>(pc = "Done")

\* the longest invocation: three attempts, two sleeps, then Done
C14_Witness ==
  /\ pc = "Done"
  /\ NumCalls = 3
  /\ NumSleeps = 2
  /\ result.kind = "raised"

(***************************************************************************)
(* C15: the rate-limit window is queried only right after an attempt that  *)
(* failed with the explicit signal while attempts remain; each such retry  *)
(* decision makes its own query, and the wait it computes comes from the   *)
(* reset that this query returned.                                         *)
(***************************************************************************)
C15_QueryOnlyReactive ==
  /\ \A i \in DOMAIN trace :
       trace[i].ev = "query" =>
         /\ i > 1
         /\ IsCall(i - 1)
         /\ ExplicitSignal(trace[i - 1].out)
         /\ trace[i - 1].arg < 3
  /\ \A i \in DOMAIN trace :
       (IsCall(i) /\ ExplicitSignal(trace[i].out) /\ trace[i].arg < 3) =>
         \/ (i = Len(trace) /\ pc = "Waiting")
         \/ (i < Len(trace) /\ trace[i + 1].ev = "query")
  /\ \A i \in DOMAIN trace :
       (trace[i].ev = "warning" /\ trace[i - 1].ev = "query") =>
         trace[i].arg = (trace[i - 1].arg - trace[i - 1].at) + 5

\* two retry decisions, each with its own query and its own reset
C15_Witness ==
  /\ NumQueries = 2
  /\ NumWarnings = 2
  /\ EventsOf(trace, "warning")[1].arg = 15
  /\ EventsOf(trace, "warning")[2].arg = 7

\* the error the invocation raised is of a retryable class
RaisedRateLimitError ==
  /\ result.kind = "raised"
  /\ \/ /\ result.err.src = "operation"
        /\ RetryableCondition(EventsOf(trace, "call")[result.err.n].out)
     \/ /\ result.err.src = "query"
        /\ result.err.cls = "RateLimitExceededException"

(***************************************************************************)
(* C16: an invocation ends by raising a rate-limit error (the explicit     *)
(* signal or a 403 rate-limit failure) only if exactly 3 attempts were     *)
(* made and the third failed with that error.                              *)
(***************************************************************************)
C16_RateLimitErrorOnlyAfterExhaustion ==
  (pc = "Done" /\ RaisedRateLimitError) =>
    /\ NumCalls = 3
    /\ result.err.src = "operation"
    /\ result.err.n = 3

(***************************************************************************)
(* C20: when the queried reset lies more than 60 seconds ahead, the        *)
(* wrapper sleeps exactly 60 seconds, so its next attempt is made before   *)
(* the window has reset; that attempt can meet the same rate-limit failure *)
(* and use up one of the three attempts.                                   *)
(***************************************************************************)
C20_CapRetriesBeforeReset ==
  \A i \in DOMAIN trace :
    (trace[i].ev = "query" /\ trace[i].arg - trace[i].at > 60) =>
      /\ i + 2 <= Len(trace)
      /\ trace[i + 2].ev = "sleep"
      /\ trace[i + 2].arg = 60
      /\ (i + 3 <= Len(trace) =>
            (IsCall(i + 3) /\ trace[i + 3].at < trace[i].arg))

\* the attempt made before the reset met the explicit signal again
C20_Witness ==
  \E i \in DOMAIN trace :
    /\ trace[i].ev = "query"
    /\ trace[i].arg - trace[i].at > 60
    /\ i + 3 <= Len(trace)
    /\ IsCall(i + 3)
    /\ trace[i + 3].at < trace[i].arg
    /\ ExplicitSignal(trace[i + 3].out)

(***************************************************************************)
(* C21: when the rate-limit query of a retry decision fails, the           *)
(* invocation ends at once by raising the error of the query: the query    *)
(* is the last thing the invocation did, no sleep and no further call of   *)
(* the operation follow, and fewer than 3 attempts were made.              *)
(***************************************************************************)
C21_QueryFailureEndsInvocation ==
  /\ \A i \in DOMAIN trace :
       (trace[i].ev = "query" /\ trace[i].out.cls \in QueryErrors) =>
         /\ EndedAt(i)
         /\ result = Raised("query", trace[i].out.cls, 0)
  /\ (result.kind = "raised" /\ result.err.src = "query") =>
       /\ pc = "Done"
       /\ result.err.cls \in QueryErrors
       /\ trace[Len(trace)].ev = "query"
       /\ IsCall(Len(trace) - 1)
       /\ ExplicitSignal(trace[Len(trace) - 1].out)
       /\ NumCalls < 3
       /\ NumSleeps = NumCalls - 1
  /\ (trace # << >> /\ trace[Len(trace)].ev = "query") =>
       /\ pc = "Done"
       /\ result.kind = "raised"
       /\ result.err.src \in { "query", "subtract" }

\* the query after the first attempt fails with a hosting-client error
C21_Witness ==
  /\ pc = "Done"
  /\ NumCalls = 1
  /\ NumSleeps = 0
  /\ result = Raised("query", "GithubException", 0)

(***************************************************************************)
(* C22: a completed invocation either returns the value of a successful    *)
(* attempt, which is then the last thing it did, or raises an error; it    *)
(* never leaves the loop and returns None.                                 *)
(***************************************************************************)
C22_NeverFallsOutOfLoop ==
  pc = "Done" =>
    \/ result.kind = "raised"
    \/ /\ result.kind = "returned"
       /\ IsCall(Len(trace))
       /\ trace[Len(trace)].out.cls = "ok"
       /\ result.value = trace[Len(trace)].out.value
       /\ result.value \in Values

\* the loop used to its end: the third attempt succeeds after two sleeps
C22_Witness ==
  /\ pc = "Done"
  /\ NumCalls = 3
  /\ NumSleeps = 2
  /\ result = Returned(1)

(***************************************************************************)
(* C23: a failure of the explicit rate-limit type with attempts remaining  *)
(* is handled by the query and the reset-based sleep, also when it carries *)
(* status 403 and a "rate limit" message: what follows its call is the     *)
(* query, never the fixed 60-second sleep without a query.                 *)
(***************************************************************************)
C23_ExplicitSignalTakesQueryPath ==
  \A i \in DOMAIN trace :
    (IsCall(i) /\ ExplicitSignal(trace[i].out) /\ trace[i].arg < 3) =>
      /\ i = Len(trace) => (pc = "Waiting" /\ pending = "explicit")
      /\ i < Len(trace) => trace[i + 1].ev = "query"
      /\ i + 1 < Len(trace) => trace[i + 2].ev # "sleep"

\* an explicit signal with status 403 and a rate-limit message, followed by
\* a query and a sleep of reset + 5 seconds
C23_Witness ==
  \E i \in DOMAIN trace :
    /\ IsCall(i)
    /\ ExplicitSignal(trace[i].out)
    /\ trace[i].out.status = 403
    /\ trace[i].out.msg \in RateLimitMessages
    /\ i + 3 <= Len(trace)
    /\ trace[i + 1].ev = "query"
    /\ trace[i + 3].ev = "sleep"
    /\ trace[i + 3].arg = 7

(***************************************************************************)
(* Vocabulary of the properties of the configuration.                      *)
(***************************************************************************)
\* the section/key pairs of the built-in defaults
DefaultKeys ==
  UNION { { << s, k >> : k \in ConfigKeysOf(s) } : s \in ConfigSections }

\* what a Config built now, with no file and no environment, reports
NewConfigReports(s, k) ==
  LET built == Construct(cfgShared, NoFile, NoEnv)
  IN  Get(built.shared, built.top, s, k)

\* the environment variable mapped to a key, if one is set
EnvSetFor(env, s, k) ==
  { i \in 1..Len(env_mappings) :
      /\ env_mappings[i].section = s
      /\ env_mappings[i].key = k
      /\ env[env_mappings[i].var].set }

FileMentions(file, s, k) ==
  file.kind = "dict" /\ file.top[s].kind = "own" /\ k \in DOMAIN file.top[s].d

FileReplaces(file, s) == file.kind = "dict" /\ file.top[s].kind = "scalar"

\* environment over file over built-in default
ByPrecedence(file, env, s, k) ==
  IF EnvSetFor(env, s, k) # {}
  THEN EnvValue(env[env_mappings[CHOOSE i \in EnvSetFor(env, s, k) : TRUE].var].text)
  ELSE IF FileMentions(file, s, k) THEN file.top[s].d[k]
  ELSE DEFAULT_CONFIG[s][k]

\* C24: whatever Config objects were built and whatever set() calls were
\* made, a Config built with no config file and no environment override
\* reports the original default of DEFAULT_CONFIG for every section and key.
C24_DefaultsNeverChange ==
  \A p \in DefaultKeys : NewConfigReports(p[1], p[2]) = DEFAULT_CONFIG[p[1]][p[2]]

\* C25: a Config just built reports, for every key of the defaults, the
\* value of the environment variable mapped to it when that is set, else
\* the value the file gives it, else the built-in default; so the keys the
\* file does not mention keep their default.
C25_EnvOverFileOverDefault ==
  (cfgLast.op = "init" /\ ~cfgLast.raised) =>
    \A p \in DefaultKeys :
      ~FileReplaces(cfgLast.file, p[1]) =>
        Get(cfgShared, cfgInst.top, p[1], p[2])
          = ByPrecedence(cfgLast.file, cfgLast.env, p[1], p[2])

\* C26: while the GitClient has no repository, every repository operation
\* fails with the "Not a git repository" error without a call to the
\* version-control engine; the client has no repository exactly until an
\* init_repository or clone_repository succeeds; and is_repo() answers true
\* exactly when a repository is set.
C26_NoRepositoryNoOperation ==
  /\ (gcLast.op \in RepoOps /\ ~gcLast.had) =>
       (gcLast.out = "NotARepo" /\ gcLast.engine = 0 /\ ~gcRepo)
  /\ (gcLast.op \in RepoOps /\ gcLast.had) => gcLast.out \in { "ok", "error" }
  /\ gcLast.op = "is_repo" => (gcLast.out = "true" <=> gcRepo)
  /\ gcLast.op = "is_repo" => gcLast.out \in { "true", "false" }

\* commit on a client whose clone_repository failed before
C26_Witness ==
  /\ gcClient = "made"
  /\ ~gcRepo
  /\ gcEngine = 1
  /\ gcLast = [op |-> "commit", had |-> FALSE, engine |-> 0, out |-> "NotARepo"]

\* C27: _truncate_diff returns the diff unchanged and False when the diff
\* has at most max_size characters; otherwise it returns the first max_size
\* characters followed by the truncation marker, and True.  The flag is
\* true exactly when the diff is longer than max_size.
C27_TruncateDiff ==
  tdMax >= 0 =>
    /\ tdResult.truncated <=> Len(tdDiff) > tdMax
    /\ Len(tdDiff) <= tdMax => tdResult.text = tdDiff
    /\ Len(tdDiff) > tdMax =>
         /\ Len(tdResult.text) = tdMax + Len(TruncationMarker)
         /\ \A i \in 1..tdMax : tdResult.text[i] = tdDiff[i]
         /\ \A i \in 1..Len(TruncationMarker) :
              tdResult.text[tdMax + i] = TruncationMarker[i]

\* a diff of exactly max_size characters, returned whole
C27_Witness ==
  /\ tdMax = 3
  /\ Len(tdDiff) = 3
  /\ tdResult = [text |-> tdDiff, truncated |-> FALSE]

(***************************************************************************)
(* Vocabulary of the properties of the command-line program.               *)
(***************************************************************************)
StepRaised(i) == cliSteps[i].out = "raise"

AnyStepRaised == \E i \in 1..Len(cliSteps) : StepRaised(i)

StepsMade == { cliSteps[i].step : i \in 1..Len(cliSteps) }

LoadFailed == cliSteps # << >> /\ cliSteps[1].step = "import"

\* C17: for every command, the exit status is 1, after the error message
\* has been printed, whenever get_clients() or a step of the command raised,
\* and it is 0 whenever the command reached the end of its body or returned
\* early without a step raising.
C17_ExitStatus ==
  /\ (AnyStepRaised /\ ~LoadFailed) => (cliExit = 1 /\ cliErr)
  /\ (cliPc = "exited" /\ ~AnyStepRaised) => (cliExit = 0 /\ ~cliErr)

\* commit fails in `commit`: the message is printed and the status is 1
C17_Witness ==
  /\ cliCmd = "commit"
  /\ cliPc = "exited"
  /\ cliSteps[Len(cliSteps)] = [step |-> "commit", out |-> "raise"]
  /\ cliExit = 1
  /\ cliErr

\* C18: in every command, a step that raises is the last step of the
\* invocation: the process has exited and no later step was made.  So push
\* never follows a failed commit or a failed pull, clone never follows a
\* failed repository creation, and no comment is posted after a failed
\* fetch or review.
C18_FailureAbortsRemainingSteps ==
  \A i \in 1..Len(cliSteps) :
    StepRaised(i) => (i = Len(cliSteps) /\ cliPc = "exited")

\* quick-commit --push whose commit fails: push is never made
C18_Witness ==
  /\ cliCmd = "quick_commit"
  /\ cliOpts.push
  /\ cliPc = "exited"
  /\ cliSteps[Len(cliSteps)] = [step |-> "commit", out |-> "raise"]
  /\ "push" \notin StepsMade

(***************************************************************************)
(* Vocabulary of the properties of the JSON extraction.                    *)
(***************************************************************************)
DefaultField(fn) ==
  IF fn = "review_code_changes" THEN "summary" ELSE "review_comment"

\* the order of sources as stated: the fenced block if it parses, else the
\* brace span if it parses, else the raw text
InStatedOrder(fn, t) ==
  IF FenceGroup(t) # NoSpan /\ Parseable(FenceGroup(t))
  THEN Parsed(FenceGroup(t)).text
  ELSE IF BraceSpan(t) # NoSpan /\ Parseable(BraceSpan(t))
  THEN Parsed(BraceSpan(t)).text
  ELSE t

ReturnedReview == agFn # "none" /\ agResult.kind # "raised"

\* C19: a review method returns the object parsed from the fenced block when
\* the block parses, else the object parsed from the text between the first
\* "{" and the last "}" when that parses, and the raw text under the
\* default field only when neither parses; so review_code_changes returns
\* the parsed brace-delimited object when the fenced block does not parse.
C19_ExtractionOrder ==
  ReturnedReview =>
    /\ agResult.text = InStatedOrder(agFn, agText)
    /\ agResult.kind = "raw" <=>
         /\ ~(FenceGroup(agText) # NoSpan /\ Parseable(FenceGroup(agText)))
         /\ ~(BraceSpan(agText) # NoSpan /\ Parseable(BraceSpan(agText)))
    /\ agResult.kind = "raw" => agResult.field = DefaultField(agFn)

\* step number i was step and answered out
StepWas(i, step, out) ==
  i \in 1..Len(cliSteps) /\ cliSteps[i] = [step |-> step, out |-> out]

CommitCommand == cliCmd \in { "commit", "quick_commit" } /\ ~LoadFailed

\* C28: in commit and quick-commit, git.commit is called only after files
\* were staged in this invocation, the staged diff was not empty and a
\* commit message that is not empty is in hand; when nothing is given to
\* stage, or the staged diff is empty, no commit and no push are made and
\* the command ends with exit status 0.
C28_CommitOnlyWhenStagedAndDescribed ==
  CommitCommand =>
    /\ \A i \in 1..Len(cliSteps) :
         cliSteps[i].step = "commit" =>
           /\ cliMsg
           /\ \E j \in 1..(i - 1) : StepWas(j, "add", "ok")
           /\ \E j \in 1..(i - 1) : StepWas(j, "get_diff", "nonempty")
    /\ \A i \in 1..Len(cliSteps) :
         cliSteps[i].step = "push" => StepWas(i - 1, "commit", "ok")
    /\ ( \/ (\E j \in 1..Len(cliSteps) : StepWas(j, "get_diff", "empty"))
         \/ /\ cliCmd = "commit"
            /\ ~cliOpts.all /\ ~cliOpts.files
            /\ StepWas(1, "get_clients", "ok") )
        => /\ "commit" \notin StepsMade
           /\ "push" \notin StepsMade
           /\ cliPc = "exited"
           /\ cliExit = 0

\* commit --ai: the generated message is empty, a message is asked for, and
\* the commit is made
C28_Witness ==
  /\ cliCmd = "commit"
  /\ cliPc = "exited"
  /\ cliExit = 0
  /\ \E j \in 1..Len(cliSteps) : StepWas(j, "generate_commit_message", "empty")
  /\ StepWas(Len(cliSteps) - 1, "prompt_message", "text")
  /\ StepWas(Len(cliSteps), "commit", "ok")

\* C29: sync calls push only as its fourth step, after a pull that returned
\* and a status that reported a clean working tree; with a dirty working
\* tree after the pull it reports that changes must be committed first,
\* makes no push and ends; it never pushes before pulling.
C29_SyncPushesAfterCleanPull ==
  (cliCmd = "sync" /\ ~LoadFailed) =>
    /\ \A i \in 1..Len(cliSteps) :
         cliSteps[i].step = "push" =>
           /\ StepWas(i - 2, "pull", "ok")
           /\ StepWas(i - 1, "status", "clean")
    /\ \A i \in 1..Len(cliSteps) :
         StepWas(i, "status", "dirty") =>
           /\ "push" \notin StepsMade
           /\ StepWas(i - 1, "pull", "ok")
           /\ i = Len(cliSteps) => cliPc = "report_uncommitted"
           /\ i < Len(cliSteps) =>
                (cliSteps[i + 1].step = "report_uncommitted" /\ cliPc = "exited")
    /\ \A i \in 1..Len(cliSteps) :
         StepWas(i, "status", "clean") =>
           (i = Len(cliSteps) => cliPc = "push")

\* the pull succeeds and leaves a dirty working tree: the report, no push
C29_Witness ==
  /\ cliCmd = "sync"
  /\ cliPc = "exited"
  /\ cliExit = 0
  /\ StepWas(2, "pull", "ok")
  /\ StepWas(3, "status", "dirty")
  /\ StepWas(4, "report_uncommitted", "ok")
  /\ "push" \notin StepsMade

====
